---- MODULE Spec2Model ----
(***************************************************************************)
(* Docket statistics engine of TJGO_Projeto6_TxCong.                       *)
(*                                                                         *)
(* src/util.py      ProcessosAnalisador over per-case event records        *)
(*                  (calcular_estatisticas, plotar_graficos_comarca).      *)
(* src/util_copy.py ProcessosAnalisador over a pre-aggregated table        *)
(*                  (obter_dados_filtrados).                               *)
(* src/app.py       construction of the engine at import and the route '/' *)
(*                  (tabela) that renders calcular_estatisticas.           *)
(*                                                                         *)
(* Modelling conventions                                                   *)
(*  - A DataFrame is a bag of rows: a function from the distinct rows to   *)
(*    the number of times each occurs.  Row order and the pandas index are *)
(*    dropped; the modelled results only count rows.                       *)
(*  - A date is modelled by its calendar year, or NaT.  The code compares  *)
(*    dates only with Timestamp('2020-01-01') and through to_period('Y'),  *)
(*    both of which depend on the year alone.                              *)
(*  - A rate is an integer number of hundredths of a percent (6250 is      *)
(*    62.50), rounded half-to-even as round() and ndarray.round() do.      *)
(*    Binary floating point noise is not modelled.                         *)
(*  - A comarca name is a sequence of characters, so that str.strip() and  *)
(*    str.lower() are computed and not assumed.                            *)
(***************************************************************************)
EXTENDS Integers, Sequences, FiniteSets, TLC

VARIABLES modulo, df, pc, chamada, resultado, fonte, concorrente

vars == <<modulo, df, pc, chamada, resultado, fonte, concorrente>>

----------------------------------------------------------------------------
(* Bounds of the model *)

\* most rows in a loaded table
MaxRecords == 2
\* latest calendar year that occurs in the data or in a query
MaxAno == 2023
\* largest count held by a cell of the pre-aggregated table
MaxCount == 1
\* the most rows of the store two callers share
MaxRecordsConcorrente == 1

(* Program constants *)

\* START = pd.Timestamp('2020-01-01'), min_ano = 2020
START == 2020

\* a date is <<year>>; the missing date pd.NaT is the empty tuple
NaT == <<>>
Data(ano) == <<ano>>

----------------------------------------------------------------------------
(* Value sets the inputs are drawn from *)

Areas == {"CIVEL", "CRIME"}
\* the order in which the rows of a grouped table and the areas of a series
\* are laid out; no property below depends on it
AreaOrder == <<"CIVEL", "CRIME">>
Serventias == {"1VARA", "2VARA"}
\* the ascending order sort_values('Serventia') produces
ServentiaOrder == <<"1VARA", "2VARA">>

\* comarca names held by the store: two spellings of one district
Comarcas == {<<"A">>, <<"a", " ">>}
\* comarca names a caller may ask for
ComarcasConsulta == Comarcas \cup {<<"B">>}

Anos == (START - 1)..MaxAno
Datas == {NaT} \cup {Data(a) : a \in Anos}

\* a row of the event table after _carregar_dados
Processos ==
    [comarca : Comarcas, nome_area_acao : Areas,
     data_distribuicao : Datas, data_baixa : Datas]

\* the rate a pre-aggregated row carries, as the producer of the file
\* computed it from the row's own counts
TaxaInformada(p, b) ==
    IF p + b > 0
    THEN LET q == (p * 10000) \div (p + b)
             r == (p * 10000) % (p + b)
         IN  IF 2 * r > p + b \/ (2 * r = p + b /\ q % 2 = 1) THEN q + 1 ELSE q
    ELSE 0

\* a row of the pre-aggregated table
AnosRef == {START, START + 1}
Agregados ==
    {[comarca |-> c, serventia |-> s, ano_ref |-> a,
      Distribuidos_ano |-> d, Baixados_ano |-> b, Pendentes_ano |-> p,
      Taxa_Cong_anual |-> TaxaInformada(p, b)] :
        c \in Comarcas, s \in Serventias, a \in AnosRef,
        d \in 0..MaxCount, b \in 0..MaxCount, p \in 0..MaxCount}

----------------------------------------------------------------------------
(* DataFrames as bags *)

EmptyFrame == [t \in {} |-> 0]

Empty(d) == DOMAIN d = {}

AddRow(d, t) ==
    [u \in DOMAIN d \cup {t} |->
        IF u \in DOMAIN d THEN d[u] + (IF u = t THEN 1 ELSE 0) ELSE 1]

\* df[mask], the mask given as the set of rows it keeps
Filter(d, mask) == [t \in DOMAIN d \cap mask |-> d[t]]

RECURSIVE Linhas(_)
\* len(df)
Linhas(d) ==
    IF DOMAIN d = {} THEN 0
    ELSE LET t == CHOOSE u \in DOMAIN d : TRUE
         IN  d[t] + Linhas([u \in DOMAIN d \ {t} |-> d[u]])

RECURSIVE FramesOfSize(_, _)
FramesOfSize(T, n) ==
    IF n = 0 THEN {EmptyFrame}
    ELSE {AddRow(d, t) : d \in FramesOfSize(T, n - 1), t \in T}

Frames(T) == UNION {FramesOfSize(T, n) : n \in 0..MaxRecords}

----------------------------------------------------------------------------
(* Arithmetic of the rate *)

\* what a division by zero leaves in place of a rate: no rate at all
ZeroDivisionError == -1

\* n / d rounded to the nearest integer, ties to the even one
RoundHalfEven(n, d) ==
    LET q == n \div d
        r == n % d
    IN  IF 2 * r < d THEN q
        ELSE IF 2 * r > d THEN q + 1
        ELSE IF q % 2 = 0 THEN q ELSE q + 1

\* round(p / d * 100, 2), in hundredths of a percent
Percent(p, d) ==
    IF d = 0 THEN ZeroDivisionError ELSE RoundHalfEven(p * 10000, d)

----------------------------------------------------------------------------
(* src/util.py: dates *)

\* the window test without its start date
NaJanelaSemInicio(data) == data # NaT

\* df['data_distribuicao'] >= START  (False for NaT)
NaJanela(data) == data # NaT /\ data[1] >= START

\* the cumulative comparison as a strict one
PeriodoAntes(data, ano) == data # NaT /\ data[1] < ano

\* the comparison of one year as a cumulative one
PeriodoIgualOuAntes(data, ano) == data # NaT /\ data[1] <= ano

\* data.dt.to_period('Y') <= ano_periodo  (False for NaT)
PeriodoAte(data, ano) == data # NaT /\ data[1] <= ano

\* data.dt.to_period('Y') == ano_periodo  (False for NaT)
PeriodoIgual(data, ano) == data # NaT /\ data[1] = ano

----------------------------------------------------------------------------
(* src/util.py: calcular_estatisticas *)

\* groupby(['nome_area_acao', 'comarca']).size() read at one group; the
\* comarca is a single value after the comarca filter
Size(d, area) == Linhas(Filter(d, {r \in DOMAIN d : r.nome_area_acao = area}))

\* the groups of groupby(...).size(): the keys with at least one row
Grupos(d) == {r.nome_area_acao : r \in DOMAIN d}

\* the difference without clip(lower=0)
PendentesSemClip(dist_acum, baix_acum) == dist_acum - baix_acum

\* step 8: (Distribuidos_acum - Baixados_acum).clip(lower=0)
Pendentes(dist_acum, baix_acum) ==
    IF dist_acum - baix_acum < 0 THEN 0 ELSE dist_acum - baix_acum

\* step 9: np.where(denominador > 0, Pendentes / denominador * 100, 0.0).round(2)
TaxaLinha(pendentes, baixados) ==
    LET denominador == pendentes + baixados
    IN  IF denominador > 0 THEN Percent(pendentes, denominador) ELSE 0

\* a sum that stops after the first row
SomaColunaPrimeira(linhas, col) ==
    IF linhas = <<>> THEN 0 ELSE Head(linhas)[col]

RECURSIVE SomaColuna(_, _)
\* df_final[col].sum()
SomaColuna(linhas, col) ==
    IF linhas = <<>> THEN 0
    ELSE Head(linhas)[col] + SomaColuna(Tail(linhas), col)

\* the totals rate as pending over resolved
TaxaTotalSobreBaixados(pendentes, baixados) ==
    IF baixados > 0 THEN Percent(pendentes, baixados) ELSE 0

\* the totals rate without the zero-denominator check
TaxaTotalSemGuarda(pendentes, baixados) ==
    Percent(pendentes, pendentes + baixados)

\* step 11: the rate of the totals row
TaxaTotal(pendentes, baixados) ==
    LET denom_total == pendentes + baixados
    IN  IF denom_total > 0 THEN Percent(pendentes, denom_total) ELSE 0

\* step 11: the totals row of df_final
Totais(linhas) ==
    LET dist == SomaColuna(linhas, "Distribuidos")
        baix == SomaColuna(linhas, "Baixados")
        pend == SomaColuna(linhas, "Pendentes")
    IN  [nome_area_acao |-> "TOTAL", comarca |-> <<>>,
         Distribuidos |-> dist, Baixados |-> baix, Pendentes |-> pend,
         Taxa |-> TaxaTotal(pend, baix)]

\* steps 3 to 10 for one group of df_f
LinhaGrupo(df_f, comarca, area, ano) ==
    LET distribuidos_acum ==
            Filter(df_f, {r \in DOMAIN df_f : PeriodoAte(r.data_distribuicao, ano)})
        baixados_acum ==
            Filter(df_f, {r \in DOMAIN df_f : PeriodoAte(r.data_baixa, ano)})
        distribuidos_ano ==
            Filter(df_f, {r \in DOMAIN df_f : PeriodoIgual(r.data_distribuicao, ano)})
        baixados_ano ==
            Filter(df_f, {r \in DOMAIN df_f : PeriodoIgual(r.data_baixa, ano)})
        pend == Pendentes(Size(distribuidos_acum, area), Size(baixados_acum, area))
        baix == Size(baixados_ano, area)
    IN  [nome_area_acao |-> area, comarca |-> comarca,
         Distribuidos |-> Size(distribuidos_ano, area),
         Baixados |-> baix, Pendentes |-> pend,
         Taxa |-> TaxaLinha(pend, baix)]

\* step 7: the index of pd.concat(axis=1) is the union of the four indexes;
\* the per-year groups are contained in the cumulative ones
IndiceFinal(df_f, ano) ==
    Grupos(Filter(df_f, {r \in DOMAIN df_f : PeriodoIgual(r.data_distribuicao, ano)}))
    \cup Grupos(Filter(df_f, {r \in DOMAIN df_f : PeriodoIgual(r.data_baixa, ano)}))
    \cup Grupos(Filter(df_f, {r \in DOMAIN df_f : PeriodoAte(r.data_distribuicao, ano)}))
    \cup Grupos(Filter(df_f, {r \in DOMAIN df_f : PeriodoAte(r.data_baixa, ano)}))

\* the table calcular_estatisticas returns; <<>> is the empty pd.DataFrame()
calcular_estatisticas(d, comarca, ano_selecionado) ==
    IF Empty(d) THEN <<>>
    ELSE LET df_c == Filter(d, {r \in DOMAIN d : r.comarca = comarca})
         IN  IF Empty(df_c) THEN <<>>
             ELSE LET df_f == Filter(df_c, {r \in DOMAIN df_c : NaJanela(r.data_distribuicao)})
                  IN  IF Empty(df_f) THEN <<>>
                      ELSE LET indice == IndiceFinal(df_f, ano_selecionado)
                               grupos == SelectSeq(AreaOrder,
                                             LAMBDA a : a \in indice)
                               df_final ==
                                   [i \in 1..Len(grupos) |->
                                       LinhaGrupo(df_f, comarca, grupos[i],
                                                  ano_selecionado)]
                           IN  Append(df_final, Totais(df_final))

----------------------------------------------------------------------------
(* src/util.py: plotar_graficos_comarca *)

\* str.lower() on one character
LowerChar(c) == CASE c = "A" -> "a" [] c = "B" -> "b" [] OTHER -> c

\* str.lower()
Lower(s) == [i \in DOMAIN s |-> LowerChar(s[i])]

RECURSIVE LStrip(_)
LStrip(s) == IF s # <<>> /\ Head(s) = " " THEN LStrip(Tail(s)) ELSE s

RECURSIVE RStrip(_)
RStrip(s) ==
    IF s # <<>> /\ s[Len(s)] = " " THEN RStrip(SubSeq(s, 1, Len(s) - 1)) ELSE s

\* str.strip()
Strip(s) == RStrip(LStrip(s))

\* str(comarca).strip().lower()
Norm(s) == Lower(Strip(s))

\* df_f['data_distribuicao'].dt.year.max(), df_f not empty and in the window
MaxAnoDist(df_f) ==
    CHOOSE a \in {r.data_distribuicao[1] : r \in DOMAIN df_f} :
        \A r \in DOMAIN df_f : r.data_distribuicao[1] <= a

\* the rate of one point of the series, before round(taxa, 2)
TaxaPonto(pendentes, baix_ano) ==
    LET denominador == pendentes + baix_ano
    IN  IF denominador > 0 THEN Percent(pendentes, denominador) ELSE 0

\* the difference without max(..., 0)
PendentesPontoSemMax(dist_acum, baix_acum) == dist_acum - baix_acum

\* max(dist_acum - baix_acum, 0)
PendentesPonto(dist_acum, baix_acum) ==
    IF dist_acum - baix_acum > 0 THEN dist_acum - baix_acum ELSE 0

\* the emission test on pending cases alone
TemMovimentoSoPendentes(pendentes, baix_ano) == pendentes > 0

\* the emission test on the resolutions of the year alone
TemMovimentoSoBaixados(pendentes, baix_ano) == baix_ano > 0

\* "so adiciona se houver algum movimento"
TemMovimento(pendentes, baix_ano) == pendentes > 0 \/ baix_ano > 0

\* the body of the loop over anos for one area: the points it appends
PontoAno(df_area, area, ano) ==
    LET dist_acum ==
            Linhas(Filter(df_area, {r \in DOMAIN df_area : PeriodoAte(r.data_distribuicao, ano)}))
        baix_acum ==
            Linhas(Filter(df_area, {r \in DOMAIN df_area : PeriodoAte(r.data_baixa, ano)}))
        baix_ano ==
            Linhas(Filter(df_area, {r \in DOMAIN df_area : PeriodoIgual(r.data_baixa, ano)}))
        pendentes == PendentesPonto(dist_acum, baix_acum)
    IN  IF TemMovimento(pendentes, baix_ano)
        THEN << [ano |-> ano, nome_area_acao |-> area,
                 taxa |-> TaxaPonto(pendentes, baix_ano)] >>
        ELSE << >>

RECURSIVE PontosArea(_, _, _, _)
\* for ano in anos, from ano up to max_ano
PontosArea(df_area, area, ano, max_ano) ==
    IF ano > max_ano THEN << >>
    ELSE PontoAno(df_area, area, ano)
         \o PontosArea(df_area, area, ano + 1, max_ano)

RECURSIVE DadosGrafico(_, _, _)
\* for area in areas
DadosGrafico(df_f, areas, max_ano) ==
    IF areas = << >> THEN << >>
    ELSE LET area == Head(areas)
             df_area == Filter(df_f, {r \in DOMAIN df_f : r.nome_area_acao = area})
         IN  PontosArea(df_area, area, START, max_ano)
             \o DadosGrafico(df_f, Tail(areas), max_ano)

\* the figure plotar_graficos_comarca returns: its title and its points
plotar_graficos_comarca(d, comarca) ==
    IF Empty(d) THEN [titulo |-> "Sem dados", pontos |-> << >>]
    ELSE
    LET comarca_norm == Norm(comarca)
        df_c == Filter(d, {r \in DOMAIN d : Norm(r.comarca) = comarca_norm})
    IN  IF Empty(df_c)
        THEN [titulo |-> "Sem dados para a comarca", pontos |-> << >>]
        ELSE
        LET df_f == Filter(df_c, {r \in DOMAIN df_c : NaJanela(r.data_distribuicao)})
        IN  IF Empty(df_f)
            THEN [titulo |-> "Sem dados para a comarca", pontos |-> << >>]
            ELSE
            LET max_ano == MaxAnoDist(df_f)
                areas == SelectSeq(AreaOrder, LAMBDA a : a \in Grupos(df_f))
                dados_grafico == DadosGrafico(df_f, areas, max_ano)
            IN  IF dados_grafico = << >>
                THEN [titulo |-> "Dados insuficientes para grafico historico",
                      pontos |-> << >>]
                ELSE [titulo |-> "", pontos |-> dados_grafico]

----------------------------------------------------------------------------
(* src/util_copy.py: obter_dados_filtrados *)

RECURSIVE Str(_)
\* str(n) of a non-negative integer: its decimal digits
Str(n) == IF n < 10 THEN <<n>> ELSE Append(Str(n \div 10), n % 10)

RECURSIVE Expand(_)
\* the rows of a frame, each as often as it occurs
Expand(d) ==
    IF DOMAIN d = {} THEN << >>
    ELSE LET t == CHOOSE u \in DOMAIN d : TRUE
         IN  [i \in 1..d[t] |-> t] \o Expand([u \in DOMAIN d \ {t} |-> d[u]])

RECURSIVE SortByServentia(_, _)
\* df_apresentacao.sort_values('Serventia')
SortByServentia(d, ordem) ==
    IF ordem = << >> THEN << >>
    ELSE Expand(Filter(d, {r \in DOMAIN d : r.serventia = Head(ordem)}))
         \o SortByServentia(d, Tail(ordem))

\* pd.to_numeric(col, errors='coerce') on a cell that holds a number, the
\* only cells of the three count columns in the tables of this model; a
\* cell that is no number would become NaN and be skipped by sum()
ToNumeric(v) == v

\* the presentation columns of one row of df_filtrado
Apresentacao(r) ==
    [Serventia |-> r.serventia, Comarca |-> r.comarca,
     Distribuidos |-> ToNumeric(r.Distribuidos_ano),
     Baixados |-> ToNumeric(r.Baixados_ano),
     Pendentes |-> ToNumeric(r.Pendentes_ano),
     Taxa |-> r.Taxa_Cong_anual]

\* the rate of the totals row of the pre-aggregated path
TaxaTotalAgregado(pendentes, baixados) ==
    LET denom_total == pendentes + baixados
    IN  IF denom_total > 0 THEN Percent(pendentes, denom_total) ELSE 0

\* the totals row of df_apresentacao
TotaisAgregado(linhas) ==
    LET dist == SomaColuna(linhas, "Distribuidos")
        baix == SomaColuna(linhas, "Baixados")
        pend == SomaColuna(linhas, "Pendentes")
    IN  [Serventia |-> "TOTAL", Comarca |-> << >>,
         Distribuidos |-> dist, Baixados |-> baix, Pendentes |-> pend,
         Taxa |-> TaxaTotalAgregado(pend, baix)]

\* col in self.df.columns, for every col of cols; a KeyError where false
TemColunas(d, cols) == \A r \in DOMAIN d : cols \subseteq DOMAIN r

\* the table obter_dados_filtrados returns; <<>> is the empty pd.DataFrame();
\* a missing column is caught by the try/except and gives the empty table
obter_dados_filtrados(d, comarca, ano_selecionado) ==
    IF Empty(d) THEN << >>
    ELSE IF ~TemColunas(d, {"comarca", "ano_ref"}) THEN << >>
    ELSE LET ano_str == Str(ano_selecionado)
             df_filtrado ==
                 Filter(d, {r \in DOMAIN d : r.comarca = comarca
                                      /\ Str(r.ano_ref) = ano_str})
         IN  IF Empty(df_filtrado) THEN << >>
             ELSE LET ordenado == SortByServentia(df_filtrado, ServentiaOrder)
                      df_apresentacao ==
                          [i \in 1..Len(ordenado) |-> Apresentacao(ordenado[i])]
                  IN  Append(df_apresentacao, TotaisAgregado(df_apresentacao))

----------------------------------------------------------------------------
(* The engine as a state machine: one table loaded at construction, then  *)
(* queries that each run to completion and return.                         *)

SemChamada == [op |-> "nenhuma", comarca |-> << >>, ano |-> 0]
SemResultado == << >>
\* a second caller of the same engine, with no call under way
Ocioso == [pc |-> "idle", chamada |-> SemChamada, resultado |-> SemResultado]

\* ProcessosAnalisador.__init__: self.df = self._carregar_dados(arquivo_csv)
Init ==
    /\ modulo \in {"util", "util_copy"}
    /\ df \in IF modulo = "util" THEN Frames(Processos) ELSE Frames(Agregados)
    /\ pc = "idle"
    /\ chamada = SemChamada
    /\ resultado = SemResultado
    /\ fonte = "ok"
    /\ concorrente = Ocioso

\* calcular_estatisticas as it would be if it filtered the store in place
\* (self.df = self.df[...]) where the code filters into the copy df_c
CalcularEstatisticasNoLugar(comarca, ano) ==
    /\ pc = "idle"
    /\ modulo = "util"
    /\ pc' = "done"
    /\ chamada' = [op |-> "calcular_estatisticas", comarca |-> comarca, ano |-> ano]
    /\ resultado' = calcular_estatisticas(df, comarca, ano)
    /\ df' = Filter(df, {r \in DOMAIN df : r.comarca = comarca})
    /\ UNCHANGED <<modulo, fonte, concorrente>>

CalcularEstatisticas(comarca, ano) ==
    /\ pc = "idle"
    /\ modulo = "util"
    /\ pc' = "done"
    /\ chamada' = [op |-> "calcular_estatisticas", comarca |-> comarca, ano |-> ano]
    /\ resultado' = calcular_estatisticas(df, comarca, ano)
    /\ UNCHANGED <<modulo, df, fonte, concorrente>>

PlotarGraficosComarca(comarca) ==
    /\ pc = "idle"
    /\ modulo = "util"
    /\ pc' = "done"
    /\ chamada' = [op |-> "plotar_graficos_comarca", comarca |-> comarca, ano |-> 0]
    /\ resultado' = plotar_graficos_comarca(df, comarca)
    /\ UNCHANGED <<modulo, df, fonte, concorrente>>

ObterDadosFiltrados(comarca, ano) ==
    /\ pc = "idle"
    /\ modulo = "util_copy"
    /\ pc' = "done"
    /\ chamada' = [op |-> "obter_dados_filtrados", comarca |-> comarca, ano |-> ano]
    /\ resultado' = obter_dados_filtrados(df, comarca, ano)
    /\ UNCHANGED <<modulo, df, fonte, concorrente>>

\* the caller takes the result; the engine keeps nothing of the call
Retornar ==
    /\ pc = "done"
    /\ pc' = "idle"
    /\ chamada' = SemChamada
    /\ resultado' = SemResultado
    /\ UNCHANGED <<modulo, df, fonte, concorrente>>

Next ==
    \/ \E c \in ComarcasConsulta, a \in Anos : CalcularEstatisticas(c, a)
    \/ \E c \in ComarcasConsulta : PlotarGraficosComarca(c)
    \/ \E c \in ComarcasConsulta, a \in Anos : ObterDadosFiltrados(c, a)
    \/ Retornar

Spec == Init /\ [][Next]_vars

----------------------------------------------------------------------------
(* Construction.  app.py and app_copy.py build the engine once, when the   *)
(* module is imported; _carregar_dados reads the source from disk.          *)

\* what the loader finds on disk: readable files with the expected columns,
\* no file at all, a file that cannot be read or parsed, or a readable file
\* with none of the expected columns
Fontes == {"ok", "sem_arquivo", "ilegivel", "sem_colunas"}

\* the table read from a file with none of the expected columns
OutrasColunas == [t \in {[outra |-> 0]} |-> 1]

\* the tables a readable source of the module can hold
Conteudos(m) == IF m = "util" THEN Frames(Processos) ELSE Frames(Agregados)

\* src/util.py _carregar_dados: nothing is caught.  With no file, dfs is
\* empty and pd.concat raises; read_csv raises on an unreadable file; with
\* no date column df['data_distribuicao'] raises.
carregar_dados(f, conteudo) ==
    CASE f = "sem_arquivo" -> [excecao |-> "ValueError", df |-> EmptyFrame]
      [] f = "ilegivel"    -> [excecao |-> "ParserError", df |-> EmptyFrame]
      [] f = "sem_colunas" -> [excecao |-> "KeyError", df |-> EmptyFrame]
      [] OTHER             -> [excecao |-> "", df |-> conteudo]

\* src/util_copy.py _carregar_dados: any exception of read_csv is caught
\* and an empty DataFrame returned; the columns are not looked at
carregar_dados_copy(f, conteudo) ==
    CASE f = "sem_arquivo" -> [excecao |-> "", df |-> EmptyFrame]
      [] f = "ilegivel"    -> [excecao |-> "", df |-> EmptyFrame]
      [] f = "sem_colunas" -> [excecao |-> "", df |-> OutrasColunas]
      [] OTHER             -> [excecao |-> "", df |-> conteudo]

RECURSIVE Sorted(_)
\* sorted() of a set of integers
Sorted(S) ==
    IF S = {} THEN << >>
    ELSE LET m == CHOOSE x \in S : \A y \in S : x <= y
         IN  <<m>> \o Sorted(S \ {m})

\* the order sorted() gives the comarca names of the model
ComarcaOrder == << <<"A">>, <<"B">>, <<"a", " ">> >>

\* src/util.py obter_comarcas_disponiveis
obter_comarcas_disponiveis(d) ==
    IF Empty(d) THEN << >>
    ELSE SelectSeq(ComarcaOrder, LAMBDA c : \E r \in DOMAIN d : r.comarca = c)

\* src/util.py obter_anos_disponiveis
obter_anos_disponiveis(d) ==
    IF Empty(d) THEN << >>
    ELSE LET anos_dist == {r.data_distribuicao[1] :
                              r \in {t \in DOMAIN d : t.data_distribuicao # NaT}}
             anos_baixa == {r.data_baixa[1] :
                              r \in {t \in DOMAIN d : t.data_baixa # NaT}}
         IN  Sorted({x \in anos_dist \cup anos_baixa : x >= START})

\* src/util_copy.py obter_comarcas_disponiveis
obter_comarcas_disponiveis_copy(d) ==
    IF Empty(d) \/ ~TemColunas(d, {"comarca"}) THEN << >>
    ELSE SelectSeq(ComarcaOrder,
             LAMBDA c : /\ \E r \in DOMAIN d : r.comarca = c
                        /\ Strip(c) \notin {<< >>, <<"n", "a", "n">>})

\* src/util_copy.py obter_anos_disponiveis
obter_anos_disponiveis_copy(d) ==
    IF Empty(d) \/ ~TemColunas(d, {"ano_ref"}) THEN << >>
    ELSE Sorted({r.ano_ref : r \in {t \in DOMAIN d : t.ano_ref >= START}})

RECURSIVE SortByAnoRef(_, _)
\* df_comarca.sort_values('ano_ref') over the years lo..MaxAno
SortByAnoRef(d, lo) ==
    IF lo > MaxAno THEN << >>
    ELSE SortByServentia(Filter(d, {r \in DOMAIN d : r.ano_ref = lo}),
                         ServentiaOrder)
         \o SortByAnoRef(d, lo + 1)

\* src/util_copy.py plotar_graficos_comarca: the title and the points of
\* the figure
plotar_graficos_comarca_copy(d, comarca) ==
    IF Empty(d) THEN [titulo |-> "Sem dados disponiveis", pontos |-> << >>]
    ELSE IF ~TemColunas(d, {"comarca"})
    THEN [titulo |-> "Erro ao filtrar comarca", pontos |-> << >>]
    ELSE LET df_comarca == Filter(d, {r \in DOMAIN d : r.comarca = comarca})
         IN  IF Empty(df_comarca)
             THEN [titulo |-> "Sem dados para a comarca", pontos |-> << >>]
             ELSE LET linhas == SortByAnoRef(df_comarca, START - 1)
                  IN  [titulo |-> "Taxa de Congestionamento por Ano",
                       pontos |-> [i \in 1..Len(linhas) |->
                                     [ano |-> linhas[i].ano_ref,
                                      serventia |-> linhas[i].serventia,
                                      taxa |-> linhas[i].Taxa_Cong_anual]]]

\* the module is being imported: no engine yet
InitCarga ==
    /\ modulo \in {"util", "util_copy"}
    /\ fonte \in Fontes
    /\ df = EmptyFrame
    /\ pc = "import"
    /\ chamada = SemChamada
    /\ resultado = SemResultado
    /\ concorrente = Ocioso

\* app.py: analisador = ProcessosAnalisador("uploads"), at module level and
\* outside any try, so an exception of the constructor ends the import and
\* leaves the process without an engine.  app_copy.py wraps the same call in
\* try/except, but carregar_dados_copy raises nothing.
Construtor ==
    /\ pc = "import"
    /\ \E conteudo \in (IF fonte = "ok" THEN Conteudos(modulo) ELSE {EmptyFrame}) :
          LET r == IF modulo = "util" THEN carregar_dados(fonte, conteudo)
                   ELSE carregar_dados_copy(fonte, conteudo)
          IN  /\ df' = r.df
              /\ pc' = IF r.excecao = "" THEN "idle" ELSE "excecao"
    /\ UNCHANGED <<modulo, chamada, resultado, fonte, concorrente>>

ObterComarcasDisponiveis ==
    /\ pc = "idle"
    /\ pc' = "done"
    /\ chamada' = [op |-> "obter_comarcas_disponiveis", comarca |-> << >>, ano |-> 0]
    /\ resultado' = IF modulo = "util" THEN obter_comarcas_disponiveis(df)
                    ELSE obter_comarcas_disponiveis_copy(df)
    /\ UNCHANGED <<modulo, df, fonte, concorrente>>

ObterAnosDisponiveis ==
    /\ pc = "idle"
    /\ pc' = "done"
    /\ chamada' = [op |-> "obter_anos_disponiveis", comarca |-> << >>, ano |-> 0]
    /\ resultado' = IF modulo = "util" THEN obter_anos_disponiveis(df)
                    ELSE obter_anos_disponiveis_copy(df)
    /\ UNCHANGED <<modulo, df, fonte, concorrente>>

PlotarGraficosComarcaCopy(comarca) ==
    /\ pc = "idle"
    /\ modulo = "util_copy"
    /\ pc' = "done"
    /\ chamada' = [op |-> "plotar_graficos_comarca", comarca |-> comarca, ano |-> 0]
    /\ resultado' = plotar_graficos_comarca_copy(df, comarca)
    /\ UNCHANGED <<modulo, df, fonte, concorrente>>

NextCarga ==
    \/ Construtor
    \/ ObterComarcasDisponiveis
    \/ ObterAnosDisponiveis
    \/ \E c \in ComarcasConsulta, a \in Anos : CalcularEstatisticas(c, a)
    \/ \E c \in ComarcasConsulta : PlotarGraficosComarca(c)
    \/ \E c \in ComarcasConsulta, a \in Anos : ObterDadosFiltrados(c, a)
    \/ \E c \in ComarcasConsulta : PlotarGraficosComarcaCopy(c)
    \/ Retornar

SpecCarga == InitCarga /\ [][NextCarga]_vars

----------------------------------------------------------------------------
(* Two callers of one engine.  Flask may serve two requests at once; both  *)
(* read the same self.df.  A call filters into its own copies (df_c,       *)
(* df_f) and keeps nothing, so each call is one step here.                 *)

InitConcorrente ==
    /\ modulo = "util"
    /\ df \in UNION {FramesOfSize(Processos, n) : n \in 0..MaxRecordsConcorrente}
    /\ pc = "idle"
    /\ chamada = SemChamada
    /\ resultado = SemResultado
    /\ fonte = "ok"
    /\ concorrente = Ocioso

CalcularEstatisticasConcorrente(comarca, ano) ==
    /\ concorrente.pc = "idle"
    /\ concorrente' =
          [pc |-> "done",
           chamada |-> [op |-> "calcular_estatisticas",
                        comarca |-> comarca, ano |-> ano],
           resultado |-> calcular_estatisticas(df, comarca, ano)]
    /\ UNCHANGED <<modulo, df, pc, chamada, resultado, fonte>>

PlotarGraficosComarcaConcorrente(comarca) ==
    /\ concorrente.pc = "idle"
    /\ concorrente' =
          [pc |-> "done",
           chamada |-> [op |-> "plotar_graficos_comarca",
                        comarca |-> comarca, ano |-> 0],
           resultado |-> plotar_graficos_comarca(df, comarca)]
    /\ UNCHANGED <<modulo, df, pc, chamada, resultado, fonte>>

RetornarConcorrente ==
    /\ concorrente.pc = "done"
    /\ concorrente' = Ocioso
    /\ UNCHANGED <<modulo, df, pc, chamada, resultado, fonte>>

NextConcorrente ==
    \/ \E c \in ComarcasConsulta, a \in Anos : CalcularEstatisticas(c, a)
    \/ \E c \in ComarcasConsulta : PlotarGraficosComarca(c)
    \/ Retornar
    \/ \E c \in ComarcasConsulta, a \in Anos : CalcularEstatisticasConcorrente(c, a)
    \/ \E c \in ComarcasConsulta : PlotarGraficosComarcaConcorrente(c)
    \/ RetornarConcorrente

SpecConcorrente == InitConcorrente /\ [][NextConcorrente]_vars

----------------------------------------------------------------------------
(* src/app.py: the route '/' (tabela) *)

\* the year a request carries in its query string: digits, or anything else
AnosPedidos ==
    {[numerico |-> TRUE, valor |-> y] : y \in Anos}
      \cup {[numerico |-> FALSE, valor |-> 0]}

\* the year tabela falls back to: int() raised ValueError, or no parameter
AnoPadrao == 2020

\* try: int(filtro_ano_str) except ValueError: 2020
FiltroAno(p) == IF p.numerico THEN p.valor ELSE AnoPadrao

\* the alert tabela puts in place of the table
SemDadosFiltros == "Sem dados para os filtros selecionados."

\* what tabela hands to render_template.  A request without the comarca
\* parameter is the request for 'GOIANIRA', one more name a store may not
\* hold, as <<"B">> is here; session[] is the client's cookie and holds
\* nothing of the engine.
tabela(d, comarca_pedida, ano_pedido) ==
    LET filtro_ano == FiltroAno(ano_pedido)
        comarcas == obter_comarcas_disponiveis(d)
        anos == obter_anos_disponiveis(d)
        filtro_comarca ==
            IF /\ comarca_pedida \notin {comarcas[i] : i \in DOMAIN comarcas}
               /\ comarcas # << >>
            THEN comarcas[1] ELSE comarca_pedida
        estatisticas_df == calcular_estatisticas(d, filtro_comarca, filtro_ano)
    IN  [tabela_html |-> IF estatisticas_df # << >> THEN "<table>"
                         ELSE SemDadosFiltros,
         linhas |-> estatisticas_df,
         comarcas |-> comarcas,
         anos |-> anos,
         selected_comarca |-> filtro_comarca,
         selected_ano |-> filtro_ano]

InitApp ==
    /\ modulo = "util"
    /\ df \in Frames(Processos)
    /\ pc = "idle"
    /\ chamada = SemChamada
    /\ resultado = SemResultado
    /\ fonte = "ok"
    /\ concorrente = Ocioso

Tabela(comarca, ano) ==
    /\ pc = "idle"
    /\ modulo = "util"
    /\ pc' = "done"
    /\ chamada' = [op |-> "tabela", comarca |-> comarca, ano |-> FiltroAno(ano)]
    /\ resultado' = tabela(df, comarca, ano)
    /\ UNCHANGED <<modulo, df, fonte, concorrente>>

NextApp ==
    \/ \E c \in ComarcasConsulta, a \in AnosPedidos : Tabela(c, a)
    \/ Retornar

SpecApp == InitApp /\ [][NextApp]_vars

----------------------------------------------------------------------------
(* Vocabulary of the properties: the counts of the specification, taken   *)
(* from the store itself                                                   *)

RECURSIVE ContarEm(_, _)
\* how many rows of frame d lie in the set S of distinct rows
ContarEm(d, S) ==
    IF S = {} THEN 0
    ELSE LET t == CHOOSE u \in S : TRUE IN d[t] + ContarEm(d, S \ {t})

\* the in-window records of the jurisdiction as compute selects them
Janela(c) ==
    {r \in DOMAIN df : /\ r.comarca = c
                        /\ r.data_distribuicao # NaT
                        /\ r.data_distribuicao[1] >= START}

\* the in-window records of the jurisdiction as build_series selects them
JanelaSerie(c) ==
    {r \in DOMAIN df : /\ Norm(r.comarca) = Norm(c)
                        /\ r.data_distribuicao # NaT
                        /\ r.data_distribuicao[1] >= START}

DistributedCum(S, a, y) ==
    ContarEm(df, {r \in S : r.nome_area_acao = a /\ r.data_distribuicao[1] <= y})

ResolvedCum(S, a, y) ==
    ContarEm(df, {r \in S : /\ r.nome_area_acao = a
                             /\ r.data_baixa # NaT
                             /\ r.data_baixa[1] <= y})

DistributedInYear(S, a, y) ==
    ContarEm(df, {r \in S : r.nome_area_acao = a /\ r.data_distribuicao[1] = y})

ResolvedInYear(S, a, y) ==
    ContarEm(df, {r \in S : /\ r.nome_area_acao = a
                             /\ r.data_baixa # NaT
                             /\ r.data_baixa[1] = y})

Max0(n) == IF n > 0 THEN n ELSE 0

PendingCum(S, a, y) == Max0(DistributedCum(S, a, y) - ResolvedCum(S, a, y))

\* r is p / d * 100 to two decimals: within half a hundredth of the quotient
RoundedRate(r, p, d) ==
    LET e == r * d - p * 10000 IN -d <= 2 * e /\ 2 * e <= d

\* the rate the specification assigns to the counts pending and resolved
RateOf(r, pending, resolved) ==
    IF pending + resolved = 0 THEN r = 0
    ELSE RoundedRate(r, pending, pending + resolved)

\* no record of S is resolved before it is distributed
Coerente(S) ==
    \A r \in S : r.data_baixa # NaT => r.data_baixa[1] >= r.data_distribuicao[1]

AposCompute == pc = "done" /\ chamada.op = "calcular_estatisticas"
AposAgregado == pc = "done" /\ chamada.op = "obter_dados_filtrados"
AposSerie == pc = "done" /\ chamada.op = "plotar_graficos_comarca"
AposTabela == AposCompute \/ AposAgregado

\* the label of a row of a result table
Rotulo(linha) ==
    IF chamada.op = "calcular_estatisticas"
    THEN linha.nome_area_acao ELSE linha.Serventia

\* the positions of the group rows and of the TOTAL rows of a table
PosGrupos(tab) == {i \in 1..Len(tab) : Rotulo(tab[i]) # "TOTAL"}
PosTotal(tab) == {i \in 1..Len(tab) : Rotulo(tab[i]) = "TOTAL"}

RECURSIVE SomaPos(_, _, _)
\* the sum of column col over the rows of tab at the positions P
SomaPos(tab, P, col) ==
    IF P = {} THEN 0
    ELSE LET i == CHOOSE j \in P : TRUE
         IN  tab[i][col] + SomaPos(tab, P \ {i}, col)

----------------------------------------------------------------------------
\* C1: in every non-empty table returned by calcular_estatisticas or
\* obter_dados_filtrados there is exactly one TOTAL row, and its
\* Distribuidos, Baixados and Pendentes each equal the sum of that column
\* over all other rows of the same table.
C1_TotalIsSum ==
    (AposTabela /\ resultado # << >>) =>
        /\ Cardinality(PosTotal(resultado)) = 1
        /\ \A i \in PosTotal(resultado) :
             \A col \in {"Distribuidos", "Baixados", "Pendentes"} :
                resultado[i][col] = SomaPos(resultado, PosGrupos(resultado), col)

\* a table of the event path with two group rows, each with pending cases
C1_Witness ==
    /\ AposCompute
    /\ Cardinality(PosGrupos(resultado)) = 2
    /\ \A i \in PosGrupos(resultado) : resultado[i].Pendentes > 0
    /\ \E i \in PosTotal(resultado) : resultado[i].Pendentes = 2

----------------------------------------------------------------------------
\* r is the mean of the group rows' rates of tab, to the nearest hundredth
MeanIs(r, tab) ==
    LET n == Cardinality(PosGrupos(tab))
        e == r * n - SomaPos(tab, PosGrupos(tab), "Taxa")
    IN  n > 0 /\ -n <= 2 * e /\ 2 * e <= n

\* the two integers next to pending / (pending + resolved) * 100
Candidates(pending, resolved) ==
    IF pending + resolved = 0 THEN {0}
    ELSE LET q == (pending * 10000) \div (pending + resolved) IN {q, q + 1}

\* C2: the TOTAL row's rate is its own Pendentes / (Pendentes + Baixados)
\* * 100 to two decimals, 0.00 when that denominator is 0, on both paths;
\* whenever that value is not the mean of the group rows' rates, the TOTAL
\* rate is not that mean either.
C2_TotalRateFromSums ==
    (AposTabela /\ resultado # << >>) =>
        \A i \in PosTotal(resultado) :
            LET t == resultado[i]
            IN  /\ RateOf(t.Taxa, t.Pendentes, t.Baixados)
                /\ \A r \in Candidates(t.Pendentes, t.Baixados) :
                      (RateOf(r, t.Pendentes, t.Baixados) /\ ~MeanIs(r, resultado))
                          => ~MeanIs(t.Taxa, resultado)

\* two groups of different sizes (1 and 2 cases) whose mean rate, 75.00, is
\* not the rate of the sums, 66.67
C2_Witness ==
    /\ AposTabela
    /\ Cardinality(PosGrupos(resultado)) = 2
    /\ \E i, j \in PosGrupos(resultado) :
          /\ resultado[i].Pendentes + resultado[i].Baixados = 1
          /\ resultado[j].Pendentes + resultado[j].Baixados = 2
          /\ resultado[i].Taxa + resultado[j].Taxa = 15000
    /\ \E i \in PosTotal(resultado) : resultado[i].Taxa = 6667

----------------------------------------------------------------------------
\* C3: Pendentes is never negative in any group row or in the TOTAL row of
\* calcular_estatisticas, nor in the per-year computation of any point of
\* plotar_graficos_comarca; where a group's cumulative resolved count
\* exceeds its cumulative distributed count, Pendentes is exactly 0.
C3_PendingNeverNegative ==
    /\ AposCompute =>
          \A i \in 1..Len(resultado) :
             /\ resultado[i].Pendentes >= 0
             /\ i \in PosGrupos(resultado) =>
                   LET S == Janela(chamada.comarca)
                       a == resultado[i].nome_area_acao
                   IN  ResolvedCum(S, a, chamada.ano)
                           > DistributedCum(S, a, chamada.ano)
                       => resultado[i].Pendentes = 0
    /\ AposSerie =>
          \A a \in Areas, y \in START..MaxAno :
             LET S == JanelaSerie(chamada.comarca)
                 d == DistributedCum(S, a, y)
                 r == ResolvedCum(S, a, y)
             IN  /\ PendentesPonto(d, r) >= 0
                 /\ r > d => PendentesPonto(d, r) = 0

\* a group row whose cumulative resolved count exceeds the distributed one
C3_Witness ==
    /\ AposCompute
    /\ \E i \in PosGrupos(resultado) :
          /\ ResolvedCum(Janela(chamada.comarca), resultado[i].nome_area_acao,
                         chamada.ano)
               > DistributedCum(Janela(chamada.comarca),
                                resultado[i].nome_area_acao, chamada.ano)
          /\ resultado[i].Pendentes = 0

----------------------------------------------------------------------------
\* C4: every rate of a table of calcular_estatisticas (group rows and TOTAL)
\* and of every point of plotar_graficos_comarca lies in [0.00, 100.00].
C4_RateInRange ==
    /\ AposCompute =>
          \A i \in 1..Len(resultado) : resultado[i].Taxa \in 0..10000
    /\ AposSerie =>
          \A i \in 1..Len(resultado.pontos) :
             resultado.pontos[i].taxa \in 0..10000

\* a series with a point strictly inside the interval and a table whose
\* group rate is strictly inside it
C4_Witness ==
    \/ /\ AposSerie
       /\ \E i \in 1..Len(resultado.pontos) : resultado.pontos[i].taxa = 5000
       /\ \E i \in 1..Len(resultado.pontos) : resultado.pontos[i].taxa = 10000
    \/ /\ AposCompute
       /\ \E i \in PosGrupos(resultado) : resultado[i].Taxa = 5000
       /\ \E i \in PosGrupos(resultado) : resultado[i].Taxa = 0

----------------------------------------------------------------------------
\* C5: a row whose Pendentes + Baixados is 0 has rate exactly 0.00 and no
\* division by zero is executed: group rows and TOTAL of
\* calcular_estatisticas, TOTAL of obter_dados_filtrados, and the per-year
\* rate of plotar_graficos_comarca.
C5_ZeroDenominator ==
    /\ AposCompute =>
          \A i \in 1..Len(resultado) :
             resultado[i].Pendentes + resultado[i].Baixados = 0
                 => resultado[i].Taxa = 0
    /\ AposAgregado =>
          \A i \in PosTotal(resultado) :
             resultado[i].Pendentes + resultado[i].Baixados = 0
                 => resultado[i].Taxa = 0
    /\ AposSerie =>
          \A a \in Areas, y \in START..MaxAno :
             LET S == JanelaSerie(chamada.comarca)
                 pend == PendingCum(S, a, y)
                 baix == ResolvedInYear(S, a, y)
             IN  pend + baix = 0 => TaxaPonto(pend, baix) = 0

\* a table with a group row and a TOTAL row whose denominators are both 0
C5_Witness ==
    /\ AposCompute
    /\ \E i \in PosGrupos(resultado) :
          resultado[i].Pendentes + resultado[i].Baixados = 0
    /\ \E i \in PosTotal(resultado) :
          /\ resultado[i].Pendentes + resultado[i].Baixados = 0
          /\ resultado[i].Taxa = 0

----------------------------------------------------------------------------
\* C6: every group row of calcular_estatisticas(c, Y) reports
\* Pendentes = max(DistributedCum(Y) - ResolvedCum(Y), 0) over the in-window
\* records of the group, and a rate of Pendentes / (Pendentes +
\* ResolvedInYear(Y)) * 100 to two decimals, the denominator taking the
\* resolutions of year Y only; 50 distributed and 30 resolved cumulatively
\* with 12 resolved in the year give Pendentes 20 and rate 62.50.
C6_CumulativeStock ==
    /\ AposCompute =>
          \A i \in PosGrupos(resultado) :
             LET S == Janela(chamada.comarca)
                 a == resultado[i].nome_area_acao
                 y == chamada.ano
             IN  /\ resultado[i].Pendentes
                      = Max0(DistributedCum(S, a, y) - ResolvedCum(S, a, y))
                 /\ RateOf(resultado[i].Taxa, resultado[i].Pendentes,
                           ResolvedInYear(S, a, y))
    /\ Pendentes(50, 30) = 20
    /\ TaxaLinha(20, 12) = 6250

\* a group with an open case and a case resolved in an earlier year: the
\* rate is 100.00 because nothing was resolved in the year asked for
C6_Witness ==
    /\ AposCompute
    /\ \E i \in PosGrupos(resultado) :
          LET S == Janela(chamada.comarca)
              a == resultado[i].nome_area_acao
          IN  /\ Coerente(S)
              /\ ResolvedCum(S, a, chamada.ano) = 1
              /\ ResolvedInYear(S, a, chamada.ano) = 0
              /\ DistributedCum(S, a, chamada.ano) = 2
              /\ resultado[i].Pendentes = 1
              /\ resultado[i].Taxa = 10000

----------------------------------------------------------------------------
\* the records of a group whatever their distribution date
Registos(c, a) == {r \in DOMAIN df : r.comarca = c /\ r.nome_area_acao = a}

----------------------------------------------------------------------------
\* C8: calcular_estatisticas returns the empty table when the store is
\* empty, when no record has the queried comarca, or when the comarca has
\* no record distributed on or after 2020-01-01; obter_dados_filtrados
\* returns it when the store is empty or no row has the queried comarca.
C8_EmptyResult ==
    /\ (/\ AposCompute
        /\ \/ Empty(df)
           \/ \A r \in DOMAIN df : r.comarca # chamada.comarca
           \/ Janela(chamada.comarca) = {})
          => resultado = << >>
    /\ (/\ AposAgregado
        /\ \/ Empty(df)
           \/ \A r \in DOMAIN df : r.comarca # chamada.comarca)
          => resultado = << >>

\* the comarca has records, none of them inside the window
C8_Witness ==
    /\ AposCompute
    /\ \E r \in DOMAIN df : r.comarca = chamada.comarca
    /\ \E r \in DOMAIN df :
          r.comarca = chamada.comarca /\ r.data_distribuicao = Data(START - 1)
    /\ Janela(chamada.comarca) = {}
    /\ resultado = << >>

----------------------------------------------------------------------------
\* the years and the groups the series of a comarca ranges over
SerieAnos(S) ==
    IF S = {} THEN {}
    ELSE {y \in START..MaxAno : \E r \in S : y <= r.data_distribuicao[1]}

SerieGrupos(S) == {r.nome_area_acao : r \in S}

\* the positions of the points of (group a, year y)
PosPontos(a, y) ==
    {i \in 1..Len(resultado.pontos) :
        resultado.pontos[i].nome_area_acao = a /\ resultado.pontos[i].ano = y}

\* C9: plotar_graficos_comarca emits exactly one point for a (group, year)
\* of its range when Pendentes(year) > 0 or ResolvedInYear(year) > 0, and
\* no point otherwise; nothing is emitted outside the range.
C9_SuppressionRule ==
    AposSerie =>
        LET S == JanelaSerie(chamada.comarca)
        IN  \A a \in Areas, y \in Anos :
               Cardinality(PosPontos(a, y))
                 = IF /\ a \in SerieGrupos(S)
                      /\ y \in SerieAnos(S)
                      /\ (PendingCum(S, a, y) > 0 \/ ResolvedInYear(S, a, y) > 0)
                   THEN 1 ELSE 0

\* a series with a point and with a (group, year) of its range left out
C9_Witness ==
    /\ AposSerie
    /\ Len(resultado.pontos) > 0
    /\ LET S == JanelaSerie(chamada.comarca)
       IN  \E a \in SerieGrupos(S), y \in SerieAnos(S) :
              /\ Coerente(S)
              /\ PendingCum(S, a, y) = 0
              /\ ResolvedInYear(S, a, y) = 0
              /\ PosPontos(a, y) = {}
              /\ \E z \in SerieAnos(S) : z < y /\ PosPontos(a, z) # {}

----------------------------------------------------------------------------
\* the years in which a group has a distribution or a resolution
AnosComEvento(S, a) ==
    {y \in Anos : DistributedInYear(S, a, y) > 0 \/ ResolvedInYear(S, a, y) > 0}

\* the range is 2020-2023 and the group's events fall in 2021 and 2023 only
Fixture2021e2023(S, a) ==
    /\ SerieAnos(S) = 2020..2023
    /\ a \in SerieGrupos(S)
    /\ AnosComEvento(S, a) = {2021, 2023}

\* the years of the points of group a
AnosDosPontos(a) ==
    {resultado.pontos[i].ano : i \in {j \in 1..Len(resultado.pontos) :
                                        resultado.pontos[j].nome_area_acao = a}}

\* C10 as stated: a group with no distribution and no resolution in year Y
\* has no point for Y, and the 2021/2023 fixture has exactly the two points
\* of 2021 and 2023; stated for the stores in which no resolution precedes
\* its distribution, where it fails all the same.
C10_NoActivityNoPointAsStated ==
    (AposSerie /\ Coerente(JanelaSerie(chamada.comarca))) =>
        LET S == JanelaSerie(chamada.comarca)
        IN  \A a \in SerieGrupos(S) :
               /\ \A y \in SerieAnos(S) :
                     y \notin AnosComEvento(S, a) => PosPontos(a, y) = {}
               /\ Fixture2021e2023(S, a) => AnosDosPontos(a) = {2021, 2023}

\* C10 (amended): a group with no distribution and no resolution in year Y
\* has no point for Y unless cases are still pending at the end of Y, and
\* then it has one point, of rate 100.00; the 2021/2023 fixture has exactly
\* the two points of 2021 and 2023 when nothing is pending at the end of
\* 2022 and 2023 has a resolution or ends with pending cases.
C10_NoActivityNoBacklogNoPoint ==
    AposSerie =>
        LET S == JanelaSerie(chamada.comarca)
        IN  \A a \in SerieGrupos(S) :
               /\ \A y \in SerieAnos(S) :
                     y \notin AnosComEvento(S, a) =>
                        /\ PosPontos(a, y) # {} <=> PendingCum(S, a, y) > 0
                        /\ Cardinality(PosPontos(a, y)) <= 1
                        /\ \A i \in PosPontos(a, y) :
                              resultado.pontos[i].taxa = 10000
               /\ (/\ Fixture2021e2023(S, a)
                   /\ PendingCum(S, a, 2022) = 0
                   /\ (PendingCum(S, a, 2023) > 0
                       \/ ResolvedInYear(S, a, 2023) > 0))
                     => /\ AnosDosPontos(a) = {2021, 2023}
                        /\ Cardinality(PosPontos(a, 2021)) = 1
                        /\ Cardinality(PosPontos(a, 2023)) = 1

\* the fixture with the case of 2021 resolved in 2021: two points
C10_Witness ==
    /\ AposSerie
    /\ LET S == JanelaSerie(chamada.comarca)
       IN  \E a \in SerieGrupos(S) :
              /\ Coerente(S)
              /\ Fixture2021e2023(S, a)
              /\ PendingCum(S, a, 2022) = 0
              /\ PendingCum(S, a, 2023) > 0
              /\ AnosDosPontos(a) = {2021, 2023}
              /\ Len(resultado.pontos) = 2

----------------------------------------------------------------------------
\* the distinct years of the points plotar_graficos_comarca emitted
AnosEmitidos == {resultado.pontos[i].ano : i \in 1..Len(resultado.pontos)}

\* the figure is one of the titled empty figures (px.line(title=...))
SinalSemSerie == resultado.titulo # "" /\ resultado.pontos = << >>

\* C11 as stated: when fewer than 2 distinct years have an emitted point
\* (none, or exactly one), plotar_graficos_comarca returns a titled empty
\* figure and never a series made of one year's point(s).
C11_InsufficientDataSignal ==
    (AposSerie /\ Coerente(JanelaSerie(chamada.comarca))) =>
        (Cardinality(AnosEmitidos) < 2 => SinalSemSerie)

----------------------------------------------------------------------------
\* the construction found no usable source
FalhaDeCarga == fonte # "ok" /\ pc # "import"

\* a query has returned the empty list, the empty table or a titled figure
\* without points
ResultadoVazio ==
    IF chamada.op = "plotar_graficos_comarca"
    THEN resultado.pontos = << >>
    ELSE resultado = << >>

\* C12 as stated: after a construction that found the source missing,
\* unreadable or without its columns, the process has an engine (no
\* exception left the constructor) and every query that returns, returns
\* an empty result.
C12_LoadFailureDegrades ==
    FalhaDeCarga =>
        /\ pc # "excecao"
        /\ pc = "done" => ResultadoVazio

----------------------------------------------------------------------------
\* what a call returns on store d, computed afresh
ResultadoDe(d, ch) ==
    CASE ch.op = "calcular_estatisticas" ->
             calcular_estatisticas(d, ch.comarca, ch.ano)
      [] ch.op = "plotar_graficos_comarca" ->
             plotar_graficos_comarca(d, ch.comarca)
      [] OTHER -> SemResultado

\* C13: no step of calcular_estatisticas or plotar_graficos_comarca, of
\* either caller and in any interleaving, changes the store, and the result
\* a caller holds is the one computed afresh from the store and the call's
\* own arguments, whatever was asked before or is being asked alongside.
C13_StoreReadOnly ==
    [][/\ df' = df
       /\ pc' = "done" => resultado' = ResultadoDe(df, chamada')
       /\ concorrente'.pc = "done" =>
             concorrente'.resultado = ResultadoDe(df, concorrente'.chamada)]_vars

\* both callers hold a table of the same comarca for different years, and
\* the two tables differ
C13_Witness ==
    /\ pc = "done"
    /\ concorrente.pc = "done"
    /\ chamada.op = "calcular_estatisticas"
    /\ concorrente.chamada.op = "calcular_estatisticas"
    /\ chamada.comarca = concorrente.chamada.comarca
    /\ chamada.ano # concorrente.chamada.ano
    /\ resultado # << >>
    /\ concorrente.resultado # << >>
    /\ resultado # concorrente.resultado
    /\ ~Empty(df)

----------------------------------------------------------------------------
\* a record the reliability window leaves out: no distribution date, or one
\* before 2020-01-01
ForaDaJanela(r) ==
    r.data_distribuicao = NaT \/ r.data_distribuicao[1] < START

\* the store with the records outside the window taken away
SoNaJanela(d) == Filter(d, {r \in DOMAIN d : ~ForaDaJanela(r)})

\* C14: records with no distribution date or with one before 2020-01-01
\* add nothing to any count: the table of calcular_estatisticas (group rows
\* and TOTAL row, all columns) and the points of plotar_graficos_comarca
\* are those obtained from the store with these records taken away,
\* whatever their data_baixa.
C14_OnlyWindowRecordsCount ==
    /\ AposCompute =>
          resultado = calcular_estatisticas(SoNaJanela(df), chamada.comarca,
                                            chamada.ano)
    /\ AposSerie =>
          resultado.pontos
            = plotar_graficos_comarca(SoNaJanela(df), chamada.comarca).pontos

\* a table with a group row, from a store that also holds a record of the
\* same comarca and area outside the window, resolved in the queried year
C14_Witness ==
    /\ AposCompute
    /\ Len(resultado) >= 2
    /\ \E r \in DOMAIN df :
          /\ ForaDaJanela(r)
          /\ r.comarca = chamada.comarca
          /\ r.nome_area_acao = resultado[1].nome_area_acao
          /\ r.data_baixa = Data(chamada.ano)
          /\ chamada.ano >= START

----------------------------------------------------------------------------
\* the rows of area a in the table calcular_estatisticas gives for (j, y)
\* that show pending or resolved cases
LinhasComMovimento(j, a, y) ==
    LET tab == calcular_estatisticas(df, j, y)
    IN  {tab[i] : i \in {k \in 1..Len(tab) :
                            /\ tab[k].nome_area_acao = a
                            /\ (tab[k].Pendentes > 0 \/ tab[k].Baixados > 0)}}

\* C15 as stated: for the comarca string j of the call, every area a and
\* every year Y of the range of the series, plotar_graficos_comarca(j) has
\* a point (Y, a, r) exactly when calcular_estatisticas(j, Y) has a row of
\* area a with Pendentes > 0 or Baixados > 0, and r is that row's rate.
C15_SeriesAgreesWithCompute ==
    AposSerie =>
        \A a \in Areas, y \in SerieAnos(JanelaSerie(chamada.comarca)) :
           /\ PosPontos(a, y) # {} <=> LinhasComMovimento(chamada.comarca, a, y) # {}
           /\ \A i \in PosPontos(a, y) :
                 \A linha \in LinhasComMovimento(chamada.comarca, a, y) :
                    resultado.pontos[i].taxa = linha.Taxa

----------------------------------------------------------------------------
AposPagina == pc = "done" /\ chamada.op = "tabela"

\* no record of S is distributed or resolved in year y or before it
AnoSemNada(S, y) ==
    \A r \in S : /\ r.data_distribuicao[1] > y
                 /\ (r.data_baixa = NaT \/ r.data_baixa[1] > y)

\* the request names a comarca the store holds, with records in the window,
\* and a year in or before which none of them is distributed or resolved
PedidoDeAnoRuim ==
    /\ AposPagina
    /\ Janela(chamada.comarca) # {}
    /\ AnoSemNada(Janela(chamada.comarca), chamada.ano)

\* C16 as stated: for a comarca the store holds, with records in the
\* window, and a year in or before which nothing is distributed or
\* resolved, tabela shows the "Sem dados" alert and no table, as it does for
\* an empty result.
C16_BadYearRendersNoData ==
    PedidoDeAnoRuim =>
        /\ resultado.tabela_html = SemDadosFiltros
        /\ resultado.linhas = << >>

====
